---------------------------- MODULE Spec2Model ----------------------------
(***************************************************************************)
(* A model of vfs-tar: the tar record parser (src/src/parser.rs), the      *)
(* directory tree builder and the lookup engine of TarFS (src/src/lib.rs). *)
(*                                                                         *)
(* Bytes are naturals (0..255), byte strings and &str are sequences of     *)
(* bytes.  A Path value is kept as the sequence of the components that     *)
(* Path::iter yields for it.  A byte read out of memory that no longer     *)
(* holds the archive is written ANY: it may be each of 0..255.             *)
(***************************************************************************)
EXTENDS Naturals, Sequences, FiniteSets

VARIABLES
    file,               \* TarFS::file, the archive buffer, as the sequence of
                        \* the chunks (see ChunkBytes) that make up its bytes
    debug_assertions,   \* TRUE in a build with cfg(debug_assertions)
    intact,             \* the memory that the slices of the tree point to
                        \* holds the bytes of `file`: FALSE once the file
                        \* under a mapping was written
    reader,             \* the reader of open_file in the caller's hand
    pc,                 \* "new" | "build" | "failed" | "panic": TarFS::new;
                        \* "ready" | "lookup" | "returned": the queries;
                        \* "dropped": the TarFS and its buffer are gone;
                        \* "killed": a fault ended the process;
                        \* "undefined": the program took a name or a link
                        \* target out of memory that no longer holds the
                        \* archive, and nothing determines what it does
    entries,            \* Vec<TarEntry>: the result of parse_tar
    idx,                \* position of the for loop of DirTreeBuilder::build
    root,               \* DirTreeBuilder::root, then TarFS::root
    longname,           \* DirTreeBuilder::longname
    longlink,           \* DirTreeBuilder::longlink
    realsize,           \* DirTreeBuilder::realsize
    op,                 \* the query in progress
    qpath,              \* its path argument
    path,               \* find_entry: the local `path`
    hops,               \* find_entry: iterations of the loop that followed a link
    result              \* what the call returned, until the caller took it

vars == <<file, debug_assertions, intact, reader, pc, entries, idx, root, longname, longlink,
          realsize, op, qpath, path, hops, result>>

---------------------------------------------------------------------------
(* Bytes the code names.                                                   *)

NUL == 0
SLASH == 47
SP == 32
TAB == 9
LF == 10
EQ == 61
PLUS == 43
DOT == 46
DIGIT0 == 48
BLOCK == 512

DotDot == <<DOT, DOT>>
StrPath == <<112, 97, 116, 104>>                          \* "path"
StrLinkpath == <<108, 105, 110, 107, 112, 97, 116, 104>>  \* "linkpath"
StrSize == <<115, 105, 122, 101>>                         \* "size"
MagicGnu == <<117, 115, 116, 97, 114, 32>>                \* "ustar "
VersionGnu == <<32, 0>>                                   \* " \0"
MagicPosix == <<117, 115, 116, 97, 114, 0>>               \* "ustar\0"
VersionPosix == <<48, 48>>                                \* "00"

---------------------------------------------------------------------------
(* Option and nom's IResult.                                               *)

None == [some |-> FALSE]
Some(v) == [some |-> TRUE, v |-> v]

\* Ok((rest, val))
POk(rest, val) == [ok |-> TRUE, rest |-> rest, val |-> val]
\* Err(nom::Err::Error(_)) and Err(nom::Err::Incomplete(_))
PErr == [ok |-> FALSE, kind |-> "Error"]
PIncomplete == [ok |-> FALSE, kind |-> "Incomplete"]

\* The `?` after a parser: its error is returned, its result is handed on.
Then(r, F(_)) == IF r.ok THEN F(r) ELSE r

Drop(s, n) == SubSeq(s, n + 1, Len(s))
Take(s, n) == SubSeq(s, 1, n)

\* nom::bytes::complete::take(n)
take(i, n) == IF Len(i) < n THEN PErr ELSE POk(Drop(i, n), Take(i, n))

\* nom::bytes::complete::tag(t)
tag(i, t) == IF Len(i) >= Len(t) /\ Take(i, Len(t)) = t THEN POk(Drop(i, Len(t)), t) ELSE PErr

\* Index of the first occurrence of byte b in s, 0 when there is none.
IndexOf(s, b) ==
    IF \E k \in 1..Len(s) : s[k] = b
    THEN CHOOSE k \in 1..Len(s) : s[k] = b /\ \A j \in 1..(k - 1) : s[j] # b
    ELSE 0

\* nom::bytes::complete::take_until with a one byte pattern
take_until(i, b) ==
    LET k == IndexOf(i, b)
    IN  IF k = 0 THEN PErr ELSE POk(Drop(i, k - 1), Take(i, k - 1))

\* Length of the longest prefix of s whose bytes all lie in set S.
RECURSIVE PrefixLen(_, _)
PrefixLen(s, S) ==
    IF s # <<>> /\ Head(s) \in S THEN 1 + PrefixLen(Tail(s), S) ELSE 0

\* UTF-8 decoding of one code point at the head of s: the number of bytes it
\* takes, 0 when the bytes are not well-formed UTF-8 (std::str::from_utf8).
Cont(s, k) == Len(s) >= k /\ s[k] >= 128 /\ s[k] <= 191
Utf8Width(s) ==
    LET b == s[1]
    IN  IF b < 128 THEN 1
        ELSE IF b >= 194 /\ b <= 223 /\ Cont(s, 2) THEN 2
        ELSE IF b >= 224 /\ b <= 239 /\ Cont(s, 2) /\ Cont(s, 3)
                /\ (b = 224 => s[2] >= 160) /\ (b = 237 => s[2] <= 159) THEN 3
        ELSE IF b >= 240 /\ b <= 244 /\ Cont(s, 2) /\ Cont(s, 3) /\ Cont(s, 4)
                /\ (b = 240 => s[2] >= 144) /\ (b = 244 => s[2] <= 143) THEN 4
        ELSE 0

RECURSIVE from_utf8(_)
from_utf8(s) ==
    IF s = <<>> THEN TRUE
    ELSE LET w == Utf8Width(s) IN w > 0 /\ from_utf8(Drop(s, w))

\* parse_str(size): the string up to the first NUL of the next `size` bytes,
\* or all of them when none is NUL.
parse_str(input_, size) ==
    LET t == take(input_, size)
    IN  IF ~t.ok THEN PErr
        ELSE LET u == take_until(t.val, NUL)
                 s == IF u.ok THEN u.val ELSE t.val
             IN  IF from_utf8(s) THEN POk(t.rest, s) ELSE PErr

parse_str8(i) == parse_str(i, 8)
parse_str32(i) == parse_str(i, 32)
parse_str100(i) == parse_str(i, 100)
parse_str155(i) == parse_str(i, 155)

\* The fold of parse_octal: acc * 8 + (v - b'0') over the digits.  A field
\* holds at most 12 digits, so the u64 accumulator never wraps.
RECURSIVE OctalFold(_, _)
OctalFold(acc, digits) ==
    IF digits = <<>> THEN acc
    ELSE OctalFold(acc * 8 + (Head(digits) - DIGIT0), Tail(digits))

\* parse_octal(i, n)
parse_octal(i, n) ==
    LET t == take(i, n)
    IN  IF ~t.ok THEN PErr
        ELSE LET nd == PrefixLen(t.val, DIGIT0..(DIGIT0 + 7))
                 ns == PrefixLen(Drop(t.val, nd), {SP, TAB})
                 r == Drop(t.val, nd + ns)
             IN  IF r = <<>> \/ r[1] = NUL
                 THEN POk(t.rest, OctalFold(0, Take(t.val, nd)))
                 ELSE PErr

parse_octal8(i) == parse_octal(i, 8)
parse_octal12(i) == parse_octal(i, 12)

\* parse_bool
parse_bool(i) == Then(take(i, 1), LAMBDA t : POk(t.rest, t.val[1] # 0))

\* parse_type_flag
parse_type_flag(i) ==
    IF i = <<>> THEN PIncomplete
    ELSE LET c == i[1]
             flag == CASE c = 48 \/ c = 0 -> "NormalFile"
                       [] c = 49 -> "HardLink"
                       [] c = 50 -> "SymbolicLink"
                       [] c = 51 -> "CharacterSpecial"
                       [] c = 52 -> "BlockSpecial"
                       [] c = 53 -> "Directory"
                       [] c = 54 -> "Fifo"
                       [] c = 55 -> "ContiguousFile"
                       [] c = 103 -> "PaxGlobal"
                       [] c = 120 \/ c = 88 -> "Pax"
                       [] c = 68 -> "GnuDirectory"
                       [] c = 75 -> "GnuLongLink"
                       [] c = 76 -> "GnuLongName"
                       [] c = 83 -> "GnuSparse"
                       [] c = 86 -> "GnuVolumeHeader"
                       [] c >= 65 /\ c <= 90 -> "VendorSpecific"
                       [] OTHER -> "Fail"
         IN  IF flag = "Fail" THEN PErr ELSE POk(Tail(i), flag)

\* nom::branch::alt: the next parser is tried after an Err::Error only.
Alt(a, b) == IF a.ok \/ a.kind # "Error" THEN a ELSE b

\* nom::sequence::terminated(first, take(n)), given the result of first
Terminated(first, n) ==
    Then(first, LAMBDA f : Then(take(f.rest, n), LAMBDA t : POk(t.rest, f.val)))

\* parse_sparse
parse_sparse(i) ==
    Then(parse_octal12(i), LAMBDA o :
    Then(parse_octal12(o.rest), LAMBDA n :
    POk(n.rest, [offset |-> o.val, numbytes |-> n.val])))

\* parse_sparses(i, count): the iterator stops at the first sparse that does
\* not parse and finish() returns what is left; empty slots are filtered.
RECURSIVE parse_sparses(_, _)
parse_sparses(i, count) ==
    IF count = 0 THEN POk(i, <<>>)
    ELSE LET s == parse_sparse(i)
         IN  IF ~s.ok THEN POk(i, <<>>)
             ELSE LET more == parse_sparses(s.rest, count - 1)
                      keep == ~(s.val.offset = 0 /\ s.val.numbytes = 0)
                  IN  POk(more.rest, IF keep THEN <<s.val>> \o more.val ELSE more.val)

\* parse_extra_sparses(i, isextended, sparses)
RECURSIVE parse_extra_sparses(_, _, _)
parse_extra_sparses(i, isextended, sparses) ==
    IF ~isextended THEN POk(i, sparses)
    ELSE Then(parse_sparses(i, 21), LAMBDA sps :
         Then(parse_bool(sps.rest), LAMBDA extended :
         Then(take(extended.rest, 7), LAMBDA pad :
         parse_extra_sparses(pad.rest, extended.val, sparses \o sps.val))))

\* parse_extra_posix
parse_extra_posix(i) ==
    Then(Terminated(parse_str155(i), 12), LAMBDA prefix :
    POk(prefix.rest, [kind |-> "Posix", prefix |-> prefix.val]))

\* parse_extra_gnu
parse_extra_gnu(i) ==
    Then(parse_octal12(i), LAMBDA atime :
    Then(parse_octal12(atime.rest), LAMBDA ctime :
    Then(parse_octal12(ctime.rest), LAMBDA offset :
    Then(take(offset.rest, 4), LAMBDA longnames :
    Then(take(longnames.rest, 1), LAMBDA pad1 :
    Then(parse_sparses(pad1.rest, 4), LAMBDA sps :
    Then(parse_bool(sps.rest), LAMBDA isextended :
    Then(parse_octal12(isextended.rest), LAMBDA real :
    Then(take(real.rest, 17), LAMBDA pad17 :
    Then(parse_extra_sparses(pad17.rest, isextended.val, sps.val), LAMBDA all :
    POk(all.rest, [kind |-> "Gnu", atime |-> atime.val, ctime |-> ctime.val,
                   offset |-> offset.val, sparses |-> all.val,
                   realsize |-> real.val])))))))))))

\* parse_ustar(magic, version, extra); gnu says which extra header parser
\* it was given.
parse_ustar(input_, magic, version, gnu) ==
    Then(tag(input_, magic), LAMBDA m :
    Then(tag(m.rest, version), LAMBDA v :
    Then(parse_str32(v.rest), LAMBDA uname :
    Then(parse_str32(uname.rest), LAMBDA gname :
    Then(parse_octal8(gname.rest), LAMBDA devmajor :
    Then(parse_octal8(devmajor.rest), LAMBDA devminor :
    Then(IF gnu THEN parse_extra_gnu(devminor.rest)
         ELSE parse_extra_posix(devminor.rest), LAMBDA extra :
    POk(extra.rest, [kind |-> "UStar", uname |-> uname.val, gname |-> gname.val,
                     devmajor |-> devmajor.val, devminor |-> devminor.val,
                     extra |-> extra.val]))))))))

\* parse_old
parse_old(i) == Then(take(i, 255), LAMBDA t : POk(t.rest, [kind |-> "Padding"]))

\* parse_header
parse_header(i) ==
    Then(parse_str100(i), LAMBDA name :
    Then(parse_octal8(name.rest), LAMBDA mode :
    Then(parse_octal8(mode.rest), LAMBDA uid :
    Then(parse_octal8(uid.rest), LAMBDA gid :
    Then(parse_octal12(gid.rest), LAMBDA size :
    Then(parse_octal12(size.rest), LAMBDA mtime :
    Then(parse_str8(mtime.rest), LAMBDA chksum :
    Then(parse_type_flag(chksum.rest), LAMBDA typeflag :
    Then(parse_str100(typeflag.rest), LAMBDA linkname :
    Then(Alt(parse_ustar(linkname.rest, MagicGnu, VersionGnu, TRUE),
         Alt(parse_ustar(linkname.rest, MagicPosix, VersionPosix, FALSE),
             parse_old(linkname.rest))), LAMBDA ustar :
    POk(ustar.rest, [name |-> name.val, mode |-> mode.val, uid |-> uid.val,
                     gid |-> gid.val, size |-> size.val, mtime |-> mtime.val,
                     chksum |-> chksum.val, typeflag |-> typeflag.val,
                     linkname |-> linkname.val, ustar |-> ustar.val])))))))))))

\* parse_contents(i, size)
parse_contents(i, size) ==
    LET trailing == size % BLOCK
        padding == IF trailing = 0 THEN 0 ELSE BLOCK - trailing
    IN  Terminated(take(i, size), padding)

\* parse_entry
parse_entry(i) ==
    Then(parse_header(i), LAMBDA header :
    Then(parse_contents(header.rest, header.val.size), LAMBDA contents :
    POk(contents.rest, [header |-> header.val, contents |-> contents.val])))

\* One round of many0, given what parse_entry made of i.
RECURSIVE many0_parse_entry(_, _)
Many0Round(i, acc, e) ==
    IF ~e.ok THEN (IF e.kind = "Error" THEN POk(i, acc) ELSE e)
    ELSE IF Len(e.rest) = Len(i) THEN PErr
    ELSE many0_parse_entry(e.rest, Append(acc, e.val))

\* nom::multi::many0(parse_entry): entries are collected until parse_entry
\* reports Err::Error; any other error, or an entry that consumed nothing,
\* fails the whole parser.
many0_parse_entry(i, acc) == Many0Round(i, acc, parse_entry(i))

\* parse_tar: all_consuming(many0(parse_entry))
parse_tar(i) ==
    Then(many0_parse_entry(i, <<>>), LAMBDA m : IF m.rest # <<>> THEN PErr ELSE m)

\* parse_long_name
parse_long_name(i) == parse_str(i, Len(i))

\* The decimal value of a string of digits.
RECURSIVE DecimalFold(_, _)
DecimalFold(acc, digits) ==
    IF digits = <<>> THEN acc
    ELSE DecimalFold(acc * 10 + (Head(digits) - DIGIT0), Tail(digits))

\* u64::MAX in decimal, "18446744073709551615"; usize is as wide on a
\* 64-bit target.
U64_MAX ==
    <<49, 56, 52, 52, 54, 55, 52, 52, 48, 55, 51, 55, 48, 57, 53, 53, 49, 54, 49, 53>>

\* The digits without their leading zeros.
RECURSIVE StripZeros(_)
StripZeros(digits) ==
    IF digits # <<>> /\ Head(digits) = DIGIT0 THEN StripZeros(Tail(digits)) ELSE digits

\* a <= b, for two digit strings of one length.
RECURSIVE DigitsLeq(_, _)
DigitsLeq(a, b) ==
    \/ a = <<>>
    \/ Head(a) < Head(b)
    \/ Head(a) = Head(b) /\ DigitsLeq(Tail(a), Tail(b))

\* The number does not overflow 64 bits: from_str fails with PosOverflow
\* otherwise.
FitsU64(digits) ==
    LET d == StripZeros(digits)
    IN  \/ Len(d) < Len(U64_MAX)
        \/ Len(d) = Len(U64_MAX) /\ DigitsLeq(d, U64_MAX)

\* str::parse::<u64>: an optional '+' and at least one decimal digit, of a
\* value up to u64::MAX.
ParseU64(s) ==
    LET d == IF s # <<>> /\ s[1] = PLUS THEN Tail(s) ELSE s
    IN  IF d # <<>> /\ PrefixLen(d, DIGIT0..(DIGIT0 + 9)) = Len(d) /\ FitsU64(d)
        THEN Some(DecimalFold(0, d)) ELSE None

\* The decimal digits of n, none for 0: what StripZeros leaves of a number
\* written out.
RECURSIVE ToDigits(_)
ToDigits(n) ==
    IF n = 0 THEN <<>> ELSE ToDigits(n \div 10) \o <<DIGIT0 + (n % 10)>>

\* One PAX record: "<len> <key>=<value>\n".  len_ok is what parse_pax_item
\* asserts in a debug build: when len parses as usize, its value is the
\* length of the item; a len that does not parse is not checked.  len is
\* all digits, so that it parses when it fits, and two numbers are equal
\* when their digits are.
parse_pax_item(i) ==
    LET nd == PrefixLen(i, DIGIT0..(DIGIT0 + 9)) IN
    IF nd = 0 THEN PErr ELSE
    LET sp == tag(Drop(i, nd), <<SP>>) IN
    IF ~sp.ok THEN PErr ELSE
    LET key == take_until(sp.rest, EQ) IN
    IF ~key.ok \/ ~from_utf8(key.val) THEN PErr ELSE
    LET value == take_until(Tail(key.rest), LF) IN
    IF ~value.ok \/ ~from_utf8(value.val) THEN PErr ELSE
    POk(Tail(value.rest),
        [key |-> key.val, value |-> value.val,
         len_ok |-> FitsU64(Take(i, nd))
                    => StripZeros(Take(i, nd))
                       = ToDigits(nd + Len(key.val) + Len(value.val) + 3)])

\* HashMap::insert
MapInsert(m, k, v) == [x \in (DOMAIN m) \cup {k} |-> IF x = k THEN v ELSE m[x]]
EmptyMap == [x \in {} |-> <<>>]

\* HashMap::get
MapGet(m, k) == IF k \in DOMAIN m THEN Some(m[k]) ELSE None

\* parse_pax: the items are collected into a HashMap until one does not
\* parse; finish() then succeeds with what is left.
RECURSIVE parse_pax_from(_, _, _)
parse_pax_from(i, map, len_ok) ==
    LET it == parse_pax_item(i)
    IN  IF ~it.ok THEN POk(i, [map |-> map, len_ok |-> len_ok])
        ELSE parse_pax_from(it.rest, MapInsert(map, it.val.key, it.val.value),
                            len_ok /\ it.val.len_ok)

parse_pax(i) == parse_pax_from(i, EmptyMap, TRUE)

---------------------------------------------------------------------------
(* std::path on Unix, on the component sequence of a path.                 *)

\* The pieces of s between its '/' bytes.
RECURSIVE SplitSlash(_)
SplitSlash(s) ==
    LET k == IndexOf(s, SLASH)
    IN  IF k = 0 THEN <<s>> ELSE <<Take(s, k - 1)>> \o SplitSlash(Drop(s, k))

RECURSIVE BodyComponents(_, _)
BodyComponents(parts, keep_cur_dir) ==
    IF parts = <<>> THEN <<>>
    ELSE LET h == Head(parts)
             keep == h # <<>> /\ (h # <<DOT>> \/ keep_cur_dir)
         IN  (IF keep THEN <<h>> ELSE <<>>) \o BodyComponents(Tail(parts), FALSE)

\* Path::new(s).iter(): "/" for a leading root, "." kept only in front of a
\* relative path, empty pieces dropped.
PathIter(s) ==
    LET has_root == s # <<>> /\ s[1] = SLASH
    IN  (IF has_root THEN <<<<SLASH>>>> ELSE <<>>)
        \o BodyComponents(SplitSlash(s), ~has_root)

IsNormal(c) == c # <<SLASH>> /\ c # <<DOT>> /\ c # DotDot

\* Path::parent
Parent(p) ==
    IF p = <<>> \/ p[Len(p)] = <<SLASH>> THEN None ELSE Some(Take(p, Len(p) - 1))

\* Path::file_name
FileName(p) ==
    IF p # <<>> /\ IsNormal(p[Len(p)]) THEN Some(p[Len(p)]) ELSE None

\* PathBuf::pop
Pop(p) == IF Parent(p).some THEN Parent(p).v ELSE p

\* PathBuf::push of one relative component: a "." pushed behind another
\* component is not seen again by iter().
Push(p, c) == IF c = <<DOT>> /\ p # <<>> THEN p ELSE Append(p, c)

\* strip_path
strip_path(s) == PathIter(IF s # <<>> /\ s[1] = SLASH THEN Tail(s) ELSE s)

---------------------------------------------------------------------------
(* Entry and DirTree = HashMap<String, Entry>.                             *)

File(buf) == [kind |-> "File", buf |-> buf]
Directory(dir) == [kind |-> "Directory", dir |-> dir]
Link(target) == [kind |-> "Link", target |-> target]

EmptyDir == [x \in {} |-> <<>>]

\* insert_dir: descend from dir along the components, creating the missing
\* directories; a component held by a File or a Link reaches unreachable!().
\* insert_dir that puts a new directory in the place of the one it finds at
\* the end of the path.
RECURSIVE insert_dir_fresh(_, _)
insert_dir_fresh(dir, p) ==
    IF p = <<>> THEN [panic |-> FALSE, dir |-> dir]
    ELSE LET k == Head(p)
             entry == IF k \in DOMAIN dir /\ Tail(p) # <<>> THEN dir[k]
                      ELSE Directory(EmptyDir)
         IN  IF entry.kind # "Directory" THEN [panic |-> TRUE, dir |-> dir]
             ELSE LET sub == insert_dir_fresh(entry.dir, Tail(p))
                  IN  [panic |-> sub.panic,
                       dir |-> MapInsert(dir, k, Directory(sub.dir))]

RECURSIVE insert_dir(_, _)
insert_dir(dir, p) ==
    IF p = <<>> THEN [panic |-> FALSE, dir |-> dir]
    ELSE LET k == Head(p)
             entry == IF k \in DOMAIN dir THEN dir[k] ELSE Directory(EmptyDir)
         IN  IF entry.kind # "Directory" THEN [panic |-> TRUE, dir |-> dir]
             ELSE LET sub == insert_dir(entry.dir, Tail(p))
                  IN  [panic |-> sub.panic,
                       dir |-> MapInsert(dir, k, Directory(sub.dir))]

\* current.insert(filename, entry) on the directory that insert_dir returned
\* for the path p.
RECURSIVE InsertAt(_, _, _, _)
InsertAt(dir, p, filename, entry) ==
    IF p = <<>> THEN MapInsert(dir, filename, entry)
    ELSE MapInsert(dir, Head(p),
                   Directory(InsertAt(dir[Head(p)].dir, Tail(p), filename, entry)))

\* The body shared by insert_file and insert_link.
InsertLeaf(dir, p, entry) ==
    LET parent == Parent(p)
        cur == IF parent.some THEN insert_dir(dir, parent.v)
               ELSE [panic |-> FALSE, dir |-> dir]
        filename == FileName(p)
    IN  IF cur.panic \/ ~filename.some THEN cur
        ELSE [panic |-> FALSE,
              dir |-> InsertAt(cur.dir, parent.v, filename.v, entry)]

\* insert_file
insert_file(dir, p, buf) == InsertLeaf(dir, p, File(buf))

\* insert_link
insert_link(dir, p, target) == InsertLeaf(dir, p, Link(target))

\* get_full_name that leaves the prefix out.
get_full_name_no_prefix(entry) == entry.header.name

\* get_full_name
get_full_name(entry) ==
    LET u == entry.header.ustar
    IN  IF u.kind = "UStar" /\ u.extra.kind = "Posix" /\ u.extra.prefix # <<>>
        THEN u.extra.prefix \o <<SLASH>> \o entry.header.name
        ELSE entry.header.name

\* get_name that ignores the builder's longname.
get_name_no_longname(ln, entry) == get_full_name(entry)

\* get_name, with the builder's longname
get_name(ln, entry) == IF ln.some THEN ln.v ELSE get_full_name(entry)

---------------------------------------------------------------------------
(* The lookup engine.                                                      *)

NoEntry == [kind |-> "None"]

\* find_entry_impl; assert_failed is the negation of the debug_assert on the
\* File and Link arms.
RECURSIVE find_entry_impl(_, _)
find_entry_impl(dir, p) ==
    IF p = <<>> THEN [ref |-> Directory(dir), assert_failed |-> FALSE]
    ELSE IF Head(p) \notin DOMAIN dir THEN [ref |-> NoEntry, assert_failed |-> FALSE]
    ELSE LET entry == dir[Head(p)]
         IN  IF entry.kind = "Directory" THEN find_entry_impl(entry.dir, Tail(p))
             ELSE [ref |-> entry, assert_failed |-> Tail(p) # <<>>]

\* The for loop of read_link over the components of a relative target.
RECURSIVE ApplyTarget(_, _)
ApplyTarget(p, cs) ==
    IF cs = <<>> THEN p
    ELSE ApplyTarget(IF Head(cs) = DotDot THEN Pop(p) ELSE Push(p, Head(cs)), Tail(cs))

\* read_link
read_link(p, target) ==
    IF target # <<>> /\ target[1] = SLASH THEN PathIter(Tail(target))
    ELSE ApplyTarget(Pop(p), PathIter(target))

---------------------------------------------------------------------------
(* Results at the vfs boundary.                                            *)

Ok(v) == [tag |-> "Ok", val |-> v]
Err(kind) == [tag |-> "Err", kind |-> kind]
Return(o, q, out) == [op |-> o, path |-> q, out |-> out]

\* The orders in which a HashMap may hand out the keys of S.
KeyOrders(S) ==
    {f \in [1..Cardinality(S) -> S] : \A i, j \in 1..Cardinality(S) : f[i] = f[j] => i = j}

\* What exists, metadata, read_dir and open_file make of the EntryRef that
\* find_entry returned; read_dir yields the keys in the order `order`.
exists_of_file_only(ref) == Ok(ref.kind = "File")
exists_of(ref) == Ok(ref.kind # "None")

\* The arm EntryRef::Link(_) => unreachable!() of metadata.
Unreachable == [tag |-> "unreachable"]

metadata_of(ref) ==
    IF ref.kind = "File"
    THEN Ok([file_type |-> "File", len |-> Len(ref.buf)])
    ELSE IF ref.kind = "Directory"
    THEN Ok([file_type |-> "Directory", len |-> 0])
    ELSE IF ref.kind = "Link"
    THEN Unreachable
    ELSE Err("FileNotFound")

read_dir_of_twice(ref, order) ==
    IF ref.kind = "Directory" THEN Ok(order \o order) ELSE Err("FileNotFound")

read_dir_of(ref, order) ==
    IF ref.kind = "Directory" THEN Ok(order) ELSE Err("FileNotFound")

open_file_of(ref) ==
    IF ref.kind = "File" THEN Ok(ref.buf) ELSE Err("FileNotFound")

Finish(o, ref, order) ==
    CASE o = "exists" -> exists_of(ref)
      [] o = "metadata" -> metadata_of(ref)
      [] o = "read_dir" -> read_dir_of(ref, order)
      [] o = "open_file" -> open_file_of(ref)

---------------------------------------------------------------------------
(* Bounds and inputs.                                                      *)

\* Records in an archive handed to TarFS::new.
MaxEntries == 2

\* The cap on chained link resolutions that the specification recommends.
\* find_entry has none; the model follows a chain one resolution past it.
LinkCap == 40

\* The longest buffer that the caller hands to Read::read.
MaxRead == 1

Zeros(n) == [k \in 1..n |-> NUL]
Pad(s, n) == s \o Zeros(n - Len(s))

RECURSIVE OctalDigits(_, _)
OctalDigits(n, width) ==
    IF width = 0 THEN <<>>
    ELSE Append(OctalDigits(n \div 8, width - 1), DIGIT0 + (n % 8))

\* A numeric header field as tar writes it: octal digits and a NUL.
OctalField(n, width) == Append(OctalDigits(n, width - 1), NUL)

ExtraV7 == Zeros(255)
ExtraPosix(prefix) ==
    MagicPosix \o VersionPosix \o Zeros(32) \o Zeros(32) \o OctalField(0, 8)
    \o OctalField(0, 8) \o Pad(prefix, 155) \o Zeros(12)
ExtraGnu(isextended) ==
    MagicGnu \o VersionGnu \o Zeros(32) \o Zeros(32) \o OctalField(0, 8)
    \o OctalField(0, 8) \o OctalField(1, 12) \o OctalField(1, 12) \o Zeros(12)
    \o Zeros(4) \o Zeros(1) \o Zeros(96) \o <<isextended>> \o OctalField(0, 12)
    \o Zeros(17)

\* A block of 21 empty sparse records that ends a chain of extensions.
SparseExtension == Zeros(BLOCK)

HeaderBlock(name, size, typeflag, linkname, extra) ==
    Pad(name, 100) \o OctalField(420, 8) \o OctalField(0, 8) \o OctalField(0, 8)
    \o OctalField(size, 12) \o OctalField(0, 12) \o Zeros(8) \o <<typeflag>>
    \o Pad(linkname, 100) \o extra

Padded(contents) ==
    contents \o Zeros((BLOCK - (Len(contents) % BLOCK)) % BLOCK)

RecordBytes(name, typeflag, linkname, extra, contents) ==
    HeaderBlock(name, Len(contents), typeflag, linkname, extra) \o Padded(contents)

\* "a", "b", "d", "d/", "d/a", "d/l", "d/b", "b/a", "/b", "p", "../a", "/d/l",
\* "././@LongLink"
NameA == <<97>>
NameB == <<98>>
NameD == <<100>>
NameDSlash == <<100, 47>>
NameDA == <<100, 47, 97>>
NameDL == <<100, 47, 108>>
NameDB == <<100, 47, 98>>
NameBA == <<98, 47, 97>>
NameSlashB == <<47, 98>>
NameP == <<112>>
TargetUpA == <<46, 46, 47, 97>>
TargetAbsDL == <<47, 100, 47, 108>>
NameLongLink == <<46, 47, 46, 47, 64, 76, 111, 110, 103, 76, 105, 110, 107>>
ContentXYZ == <<120, 121, 122>>
ContentW == <<119>>
ContentV == <<118>>
ContentU == <<117, 117>>
\* "9 size=2\n"
PaxSize2 == <<57, 32, 115, 105, 122, 101, 61, 50, 10>>
\* "9 path=a\n"
PaxPathA == <<57, 32, 112, 97, 116, 104, 61, 97, 10>>
\* "99999999999999999999 size=18446744073709551616\n": a length above
\* usize::MAX and a size of u64::MAX + 1.
PaxSizeOverflow ==
    [i \in 1..20 |-> 57] \o <<32, 115, 105, 122, 101, 61>>
        \o <<49, 56, 52, 52, 54, 55, 52, 52, 48, 55, 51, 55, 48, 57, 53, 53, 49, 54, 49, 54>>
        \o <<10>>

\* The bytes of a chunk.  The first are well-formed records; the last four
\* are no record: a stray byte, a typeflag outside the table, a size field
\* that is not octal, and a file whose padding is cut off.
ChunkBytes(c) ==
    CASE c = "FileA" -> RecordBytes(NameA, 48, <<>>, ExtraV7, ContentXYZ)
      [] c = "FileDA" -> RecordBytes(NameA, 48, <<>>, ExtraPosix(NameD), ContentW)
      [] c = "FileBA" -> RecordBytes(NameBA, 48, <<>>, ExtraV7, ContentW)
      [] c = "FileSlashB" -> RecordBytes(NameSlashB, 55, <<>>, ExtraV7, ContentV)
      [] c = "SparseB" ->
             HeaderBlock(NameB, 2, 83, <<>>, ExtraGnu(1)) \o SparseExtension
             \o Padded(ContentU)
      [] c = "DirD" -> RecordBytes(NameDSlash, 53, <<>>, ExtraGnu(0), <<>>)
      [] c = "LinkDL" -> RecordBytes(NameDL, 50, TargetUpA, ExtraGnu(0), <<>>)
      [] c = "LinkA" -> RecordBytes(NameA, 50, TargetAbsDL, ExtraPosix(<<>>), <<>>)
      [] c = "LinkB" -> RecordBytes(NameB, 49, NameD, ExtraV7, <<>>)
      [] c = "LinkSlashB" -> RecordBytes(NameSlashB, 50, NameA, ExtraV7, <<>>)
      [] c = "LongName" ->
             RecordBytes(NameLongLink, 76, <<>>, ExtraGnu(0), Append(NameDB, NUL))
      [] c = "LongLink" ->
             RecordBytes(NameLongLink, 75, <<>>, ExtraGnu(0), Append(NameA, NUL))
      [] c = "PaxSize" -> RecordBytes(NameP, 120, <<>>, ExtraPosix(<<>>), PaxSize2)
      [] c = "PaxPath" -> RecordBytes(NameP, 120, <<>>, ExtraPosix(<<>>), PaxPathA)
      [] c = "PaxOverflow" ->
             RecordBytes(NameP, 120, <<>>, ExtraPosix(<<>>), PaxSizeOverflow)
      [] c = "PaxGlobal" -> RecordBytes(NameP, 103, <<>>, ExtraPosix(<<>>), <<>>)
      [] c = "Zero" -> Zeros(BLOCK)
      [] c = "BadStray" -> <<1>>
      [] c = "BadFlag" -> HeaderBlock(NameA, 0, 33, <<>>, ExtraV7)
      [] c = "BadOctal" ->
             Pad(NameA, 100) \o Zeros(24) \o Pad(<<57>>, 12) \o Zeros(12) \o Zeros(8)
             \o <<48>> \o Zeros(100) \o ExtraV7
      [] c = "BadTruncated" -> HeaderBlock(NameA, 3, 48, <<>>, ExtraV7) \o ContentXYZ

GoodChunks ==
    {"FileA", "FileDA", "FileBA", "FileSlashB", "SparseB", "DirD", "LinkDL", "LinkA", "LinkB",
     "LinkSlashB",
     "LongName", "LongLink", "PaxSize", "PaxPath", "PaxOverflow",
     "PaxGlobal", "Zero"}
BadChunks == {"BadStray", "BadFlag", "BadOctal", "BadTruncated"}
Chunks == GoodChunks \cup BadChunks

\* The bytes of an archive buffer.
RECURSIVE FileBytes(_)
FileBytes(f) == IF f = <<>> THEN <<>> ELSE ChunkBytes(Head(f)) \o FileBytes(Tail(f))

Files == UNION {[1..n -> Chunks] : n \in 0..MaxEntries}

\* Paths asked of the filesystem: "", "a", "b", "d", "d/a", "d/b", "d/l", "b/a", "/b".
QueryPaths ==
    {<<>>, NameA, NameB, NameD, NameDA, NameDB, NameDL, NameBA, NameSlashB}

---------------------------------------------------------------------------
(* The state machine.                                                      *)

NoResult == Return("none", <<>>, Err("none"))

Init ==
    /\ file \in Files
    /\ debug_assertions \in BOOLEAN
    /\ intact = TRUE
    /\ reader = None
    /\ pc = "new"
    /\ entries = <<>>
    /\ idx = 1
    /\ root = EmptyDir
    /\ longname = None
    /\ longlink = None
    /\ realsize = None
    /\ op = "none"
    /\ qpath = <<>>
    /\ path = <<>>
    /\ hops = 0
    /\ result = NoResult

\* A byte of memory that the program reads after the buffer was freed or
\* unmapped, or after the file under the mapping was written: the program
\* does not determine its value, which may be each of 0..255.
ANY == 256

\* The memory behind the slices is what it was at construction: the TarFS
\* lives and nobody wrote to the file under its mapping.
Sound == intact /\ pc # "dropped"

\* What a read of a slice of the buffer finds, for a slice that held `bytes`
\* at construction: these bytes while the memory is sound, otherwise as
\* many bytes of any value.
Seen(bytes) == IF Sound THEN bytes ELSE [i \in 1..Len(bytes) |-> ANY]

\* The read touches memory that is not sound.  It may find any bytes there,
\* or end the process: SIGSEGV on a freed or unmapped buffer, SIGBUS past
\* the end of a truncated file.
Faults(bytes) == ~Sound /\ bytes # <<>>

\* TarFS::new up to the call of build: parse_tar, its error mapped to
\* VfsErrorKind::Other.  The parser reads every byte of the buffer: on
\* memory that is not sound it is killed, or it parses bytes that are not
\* the archive's.
New ==
    /\ pc = "new"
    /\ LET r == parse_tar(FileBytes(file))
       IN  IF Faults(FileBytes(file))
           THEN pc' \in {"undefined", "killed"} /\ entries' = entries
           ELSE IF r.ok
           THEN pc' = "build" /\ entries' = r.val
           ELSE pc' = "failed" /\ entries' = entries
    /\ UNCHANGED <<file, debug_assertions, intact, reader, idx, root, longname, longlink, realsize, op,
                   qpath, path, hops, result>>

Flag == entries[idx].header.typeflag

\* The slices of the buffer that the arm of build for entries[idx] reads:
\* the contents that parse_long_name or parse_pax goes through, the name
\* that get_name turns into a path; none for a record that is ignored.  The
\* target of a link and the contents of a file are stored unread.
Touched ==
    IF Flag \in {"GnuLongName", "GnuLongLink", "Pax"} THEN entries[idx].contents
    ELSE IF Flag \in {"PaxGlobal", "GnuVolumeHeader"} THEN <<>>
    ELSE get_name(longname, entries[idx])

\* build is at the record entries[idx], and reads it out of sound memory.
Building == pc = "build" /\ idx <= Len(entries) /\ ~Faults(Touched)

\* The tail of an arm of build that inserted into the tree.
Inserted(r) ==
    IF r.panic THEN pc' = "panic" /\ UNCHANGED <<root, idx>>
    ELSE pc' = pc /\ root' = r.dir /\ idx' = idx + 1

\* build: TypeFlag::Directory | TypeFlag::GnuDirectory
BuildDirectory ==
    /\ Building
    /\ Flag \in {"Directory", "GnuDirectory"}
    /\ Inserted(insert_dir(root, PathIter(get_name(longname, entries[idx]))))
    /\ longname' = None
    /\ UNCHANGED <<file, debug_assertions, intact, reader, entries, longlink, realsize, op, qpath,
                   path, hops, result>>

\* build: TypeFlag::HardLink | TypeFlag::SymbolicLink
BuildLink ==
    /\ Building
    /\ Flag \in {"HardLink", "SymbolicLink"}
    /\ LET name == get_name(longname, entries[idx])
           target == IF longlink.some THEN longlink.v ELSE entries[idx].header.linkname
       IN  Inserted(insert_link(root, PathIter(name), target))
    /\ longname' = None
    /\ longlink' = None
    /\ UNCHANGED <<file, debug_assertions, intact, reader, entries, realsize, op, qpath, path, hops,
                   result>>

\* build: TypeFlag::GnuLongName
BuildLongName ==
    /\ Building
    /\ Flag = "GnuLongName"
    /\ LET r == parse_long_name(entries[idx].contents)
       IN  IF debug_assertions
              /\ (entries[idx].header.size <= 1 \/ (r.ok /\ longname.some))
           THEN pc' = "panic" /\ UNCHANGED <<idx, longname>>
           ELSE /\ pc' = pc
                /\ idx' = idx + 1
                /\ longname' = IF r.ok THEN Some(r.val) ELSE longname
    /\ UNCHANGED <<file, debug_assertions, intact, reader, entries, root, longlink, realsize, op,
                   qpath, path, hops, result>>

\* build: TypeFlag::GnuLongLink
BuildLongLink ==
    /\ Building
    /\ Flag = "GnuLongLink"
    /\ LET r == parse_long_name(entries[idx].contents)
       IN  IF debug_assertions
              /\ (entries[idx].header.size <= 1 \/ (r.ok /\ longlink.some))
           THEN pc' = "panic" /\ UNCHANGED <<idx, longlink>>
           ELSE /\ pc' = pc
                /\ idx' = idx + 1
                /\ longlink' = IF r.ok THEN Some(r.val) ELSE longlink
    /\ UNCHANGED <<file, debug_assertions, intact, reader, entries, root, longname, realsize, op,
                   qpath, path, hops, result>>

\* build: TypeFlag::Pax
BuildPax ==
    /\ Building
    /\ Flag = "Pax"
    /\ LET pax == parse_pax(entries[idx].contents).val
           name == MapGet(pax.map, StrPath)
           target == MapGet(pax.map, StrLinkpath)
           size == MapGet(pax.map, StrSize)
       IN  IF debug_assertions
              /\ \/ ~pax.len_ok
                 \/ name.some /\ longname.some
                 \/ target.some /\ longlink.some
                 \/ size.some /\ realsize.some
           THEN pc' = "panic" /\ UNCHANGED <<idx, longname, longlink, realsize>>
           ELSE /\ pc' = pc
                /\ idx' = idx + 1
                /\ longname' = IF name.some THEN Some(name.v) ELSE longname
                /\ longlink' = IF target.some THEN Some(target.v) ELSE longlink
                /\ realsize' = IF size.some THEN ParseU64(size.v) ELSE realsize
    /\ UNCHANGED <<file, debug_assertions, intact, reader, entries, root, op, qpath, path, hops,
                   result>>

\* build: TypeFlag::PaxGlobal | TypeFlag::GnuVolumeHeader
BuildIgnored ==
    /\ Building
    /\ Flag \in {"PaxGlobal", "GnuVolumeHeader"}
    /\ idx' = idx + 1
    /\ UNCHANGED <<file, debug_assertions, intact, reader, pc, entries, root, longname, longlink,
                   realsize, op, qpath, path, hops, result>>

\* build: every other typeflag is a file; &entry.contents[..size] panics
\* when size is past the end of the slice.
BuildFile ==
    /\ Building
    /\ Flag \notin {"Directory", "GnuDirectory", "HardLink", "SymbolicLink",
                    "GnuLongName", "GnuLongLink", "Pax", "PaxGlobal",
                    "GnuVolumeHeader"}
    /\ LET name == get_name(longname, entries[idx])
           size == IF realsize.some THEN realsize.v ELSE entries[idx].header.size
       IN  IF size > Len(entries[idx].contents)
           THEN pc' = "panic" /\ UNCHANGED <<root, idx>>
           ELSE Inserted(insert_file(root, PathIter(name),
                                     Take(entries[idx].contents, size)))
    /\ longname' = None
    /\ realsize' = None
    /\ UNCHANGED <<file, debug_assertions, intact, reader, entries, longlink, op, qpath, path, hops,
                   result>>

\* build: an arm that reads its name or its contents out of memory that is
\* not sound is killed, or goes on with a name that is not the archive's.
BuildUnsound ==
    /\ pc = "build"
    /\ idx <= Len(entries)
    /\ Faults(Touched)
    /\ pc' \in {"undefined", "killed"}
    /\ UNCHANGED <<file, debug_assertions, intact, reader, entries, idx, root, longname, longlink,
                   realsize, op, qpath, path, hops, result>>

\* build returns self.root and TarFS::new returns Ok(Self { file, root }).
BuildDone ==
    /\ pc = "build"
    /\ idx > Len(entries)
    /\ pc' = "ready"
    /\ UNCHANGED <<file, debug_assertions, intact, reader, entries, idx, root, longname, longlink,
                   realsize, op, qpath, path, hops, result>>

\* find_entry that returns what the first walk yields, a Link too.
IterateOnce(o, q, p, h) ==
    LET r == find_entry_impl(root, p)
    IN  /\ op' = o
        /\ qpath' = q
        /\ path' = p
        /\ hops' = h
        /\ IF debug_assertions /\ r.assert_failed
           THEN pc' = "panic" /\ result' = result
           ELSE /\ pc' = "returned"
                /\ \E order \in KeyOrders(IF r.ref.kind = "Directory"
                                          THEN DOMAIN r.ref.dir ELSE {}) :
                       result' = Return(o, q, Finish(o, r.ref, order))
        /\ UNCHANGED <<file, debug_assertions, intact, reader, entries, idx, root, longname,
                       longlink, realsize>>

\* One iteration of the loop of find_entry for the query o(q), with the
\* local path p after h link resolutions, and the return of the query when
\* the iteration leaves the loop.  The names of the tree are owned strings;
\* the target of a link is a slice of the buffer, and read_link on memory
\* that is not sound is killed or resolves a target that is not the
\* archive's.
Iterate(o, q, p, h) ==
    LET r == find_entry_impl(root, p)
    IN  /\ op' = o
        /\ qpath' = q
        /\ IF debug_assertions /\ r.assert_failed
           THEN pc' = "panic" /\ path' = p /\ hops' = h /\ result' = result
           ELSE IF r.ref.kind = "Link"
           THEN /\ IF Faults(r.ref.target)
                   THEN /\ pc' \in {"undefined", "killed"}
                        /\ path' = p
                        /\ hops' = h
                   ELSE /\ pc' = "lookup"
                        /\ path' = read_link(p, r.ref.target)
                        /\ hops' = h + 1
                /\ result' = result
           ELSE /\ pc' = "returned"
                /\ path' = p
                /\ hops' = h
                /\ \E order \in KeyOrders(IF r.ref.kind = "Directory"
                                          THEN DOMAIN r.ref.dir ELSE {}) :
                       result' = Return(o, q, Finish(o, r.ref, order))
        /\ UNCHANGED <<file, debug_assertions, intact, reader, entries, idx, root, longname,
                       longlink, realsize>>

\* find_entry: the loop goes round again after a link was read.
FindEntryLoop ==
    /\ pc = "lookup"
    /\ hops <= LinkCap
    /\ Iterate(op, qpath, path, hops)

\* FileSystem::exists
Exists ==
    /\ pc = "ready"
    /\ \E q \in QueryPaths : Iterate("exists", q, strip_path(q), 0)

\* FileSystem::metadata
Metadata ==
    /\ pc = "ready"
    /\ \E q \in QueryPaths : Iterate("metadata", q, strip_path(q), 0)

\* FileSystem::open_file: an Ok result is the reader, a Cursor over a slice
\* of the buffer, written as the bytes the slice held at construction.
OpenFile ==
    /\ pc = "ready"
    /\ \E q \in QueryPaths : Iterate("open_file", q, strip_path(q), 0)

\* FileSystem::read_dir: the empty path is the root, without a lookup.
ReadDir ==
    /\ pc = "ready"
    /\ \E q \in QueryPaths :
          IF q = <<>>
          THEN /\ \E order \in KeyOrders(DOMAIN root) :
                     result' = Return("read_dir", q, Ok(order))
               /\ pc' = "returned"
               /\ op' = "read_dir"
               /\ qpath' = q
               /\ UNCHANGED <<file, debug_assertions, intact, reader, entries, idx, root, longname,
                              longlink, realsize, path, hops>>
          ELSE Iterate("read_dir", q, strip_path(q), 0)

\* A mutation that empties the tree and reports success.
NotSupportedClears(o) ==
    /\ pc = "ready"
    /\ \E q \in QueryPaths : result' = Return(o, q, Ok(TRUE)) /\ qpath' = q
    /\ pc' = "returned"
    /\ op' = o
    /\ root' = EmptyDir
    /\ UNCHANGED <<file, debug_assertions, intact, reader, entries, idx, longname, longlink,
                   realsize, path, hops>>

\* create_dir, create_file, append_file, remove_file, remove_dir
NotSupported(o) ==
    /\ pc = "ready"
    /\ \E q \in QueryPaths : result' = Return(o, q, Err("NotSupported")) /\ qpath' = q
    /\ pc' = "returned"
    /\ op' = o
    /\ UNCHANGED <<file, debug_assertions, intact, reader, entries, idx, root, longname, longlink,
                   realsize, path, hops>>

CreateDir == NotSupported("create_dir")
CreateFile == NotSupported("create_file")
AppendFile == NotSupported("append_file")
RemoveFile == NotSupported("remove_file")
RemoveDir == NotSupported("remove_dir")

\* The caller has taken the result and dropped it; the filesystem waits for
\* the next call.
Done ==
    /\ pc = "returned"
    /\ pc' = "ready"
    /\ op' = "none"
    /\ qpath' = <<>>
    /\ path' = <<>>
    /\ hops' = 0
    /\ result' = NoResult
    /\ UNCHANGED <<file, debug_assertions, intact, reader, entries, idx, root, longname, longlink,
                   realsize>>

\* The caller has taken the result and keeps the reader of open_file, a
\* Cursor at position 0 over the slice; a reader kept before is dropped.
TakeReader ==
    /\ pc = "returned"
    /\ op = "open_file"
    /\ result.out.tag = "Ok"
    /\ reader' = Some([buf |-> result.out.val, pos |-> 0])
    /\ pc' = "ready"
    /\ op' = "none"
    /\ qpath' = <<>>
    /\ path' = <<>>
    /\ hops' = 0
    /\ result' = NoResult
    /\ UNCHANGED <<file, debug_assertions, intact, entries, idx, root, longname,
                   longlink, realsize>>

\* The caller acts on the reader between two calls, or after the TarFS.
Holding == reader.some /\ pc \in {"ready", "dropped"}

\* Cursor::remaining_slice: what is left of the slice at the position.
Remaining ==
    IF reader.v.pos < Len(reader.v.buf) THEN Drop(reader.v.buf, reader.v.pos) ELSE <<>>

\* A read of n bytes at most through the reader: the bytes are copied out
\* of the memory as it is, and the read of memory that is no longer mapped,
\* or lies past the end of a mapped file, ends the process.
ReadUpTo(n) ==
    LET bytes == IF n < Len(Remaining) THEN Take(Remaining, n) ELSE Remaining
    IN  /\ reader' = Some([reader.v EXCEPT !.pos = @ + Len(bytes)])
        /\ op' = "read"
        /\ \/ /\ result' = Return("read", <<>>, Ok(Seen(bytes)))
              /\ pc' = IF pc = "ready" THEN "returned" ELSE pc
           \/ /\ Faults(bytes)
              /\ result' = result
              /\ pc' = "killed"
        /\ UNCHANGED <<file, debug_assertions, intact, entries, idx, root, longname,
                       longlink, realsize, qpath, path, hops>>

\* Read::read on the reader, with a buffer of 1..MaxRead bytes.
Read ==
    /\ Holding
    /\ \E n \in 1..MaxRead : ReadUpTo(n)

\* Read::read_to_end on the reader.
ReadToEnd ==
    /\ Holding
    /\ ReadUpTo(Len(Remaining))

\* Seek::seek on the reader, to a position from the start up to one past the
\* end of the slice.
Seek ==
    /\ Holding
    /\ \E k \in 0..(Len(reader.v.buf) + 1) :
          /\ k # reader.v.pos
          /\ reader' = Some([reader.v EXCEPT !.pos = k])
    /\ UNCHANGED <<file, debug_assertions, intact, pc, entries, idx, root, longname,
                   longlink, realsize, op, qpath, path, hops, result>>

\* The end of the TarFS: it is dropped, or into_inner hands the buffer to
\* the caller, who drops it.  A reader in the caller's hand stays there.
DropTarFS ==
    /\ pc = "ready"
    /\ pc' = "dropped"
    /\ op' = "drop"
    /\ UNCHANGED <<file, debug_assertions, intact, reader, entries, idx, root,
                   longname, longlink, realsize, qpath, path, hops, result>>

\* from_std_file and new_mmap map the file copy-on-write before they call
\* TarFS::new: a write to the file, or its truncation, by whoever has it
\* open shows in the mapping from then on, while new parses and builds,
\* between two calls and in the middle of a lookup.
WriteFile ==
    /\ pc \in {"new", "build", "ready", "lookup", "returned"}
    /\ intact
    /\ intact' = FALSE
    /\ UNCHANGED <<file, debug_assertions, reader, pc, entries, idx, root, longname,
                   longlink, realsize, op, qpath, path, hops, result>>

Next ==
    \/ New
    \/ BuildDirectory
    \/ BuildLink
    \/ BuildLongName
    \/ BuildLongLink
    \/ BuildPax
    \/ BuildIgnored
    \/ BuildFile
    \/ BuildUnsound
    \/ BuildDone
    \/ Exists
    \/ Metadata
    \/ OpenFile
    \/ ReadDir
    \/ FindEntryLoop
    \/ CreateDir
    \/ CreateFile
    \/ AppendFile
    \/ RemoveFile
    \/ RemoveDir
    \/ Done
    \/ TakeReader
    \/ Read
    \/ ReadToEnd
    \/ Seek
    \/ DropTarFS
    \/ WriteFile

Spec == Init /\ [][Next]_vars

---------------------------------------------------------------------------
(* find_entry as a function of the tree, for properties that relate the    *)
(* results of several queries on one tree.                                 *)

\* find_entry on the tree dir: the loop of find_entry, followed for at most
\* fuel link resolutions.  "running" stands for a loop that has not returned
\* by then, "panic" for a failed debug_assert in a build that has them.
RECURSIVE find_entry(_, _, _, _)
find_entry(dir, debug, p, fuel) ==
    LET r == find_entry_impl(dir, p)
    IN  IF debug /\ r.assert_failed THEN [status |-> "panic"]
        ELSE IF r.ref.kind = "Link"
        THEN IF fuel = 0 THEN [status |-> "running"]
             ELSE find_entry(dir, debug, read_link(p, r.ref.target), fuel - 1)
        ELSE [status |-> "returned", ref |-> r.ref]

---------------------------------------------------------------------------
(* Vocabulary of the properties.                                           *)

Mutations == {"create_dir", "create_file", "append_file", "remove_file", "remove_dir"}

\* TarFS::new has returned a filesystem.
Constructed == pc \in {"ready", "lookup", "returned"}

\* The arms of build.
IsDirRecord(e) == e.header.typeflag \in {"Directory", "GnuDirectory"}
IsLinkRecord(e) == e.header.typeflag \in {"HardLink", "SymbolicLink"}
IsModifier(e) ==
    e.header.typeflag \in {"GnuLongName", "GnuLongLink", "Pax", "PaxGlobal",
                           "GnuVolumeHeader"}
IsConcrete(e) == ~IsModifier(e)
IsFileLike(e) == IsConcrete(e) /\ ~IsDirRecord(e) /\ ~IsLinkRecord(e)

\* The value of a key of a PAX record, if the record has it.
PaxItem(e, key) == MapGet(parse_pax(e.contents).val.map, key)

\* The name override pending when the record es[k] is reached: the last one
\* set by a GNU long-name or a PAX path since the last concrete record.
RECURSIVE PendingLongName(_, _)
PendingLongName(es, k) ==
    IF k = 1 THEN None
    ELSE LET e == es[k - 1]
             before == PendingLongName(es, k - 1)
         IN  IF e.header.typeflag = "GnuLongName"
             THEN IF parse_long_name(e.contents).ok
                  THEN Some(parse_long_name(e.contents).val) ELSE before
             ELSE IF e.header.typeflag = "Pax"
             THEN IF PaxItem(e, StrPath).some THEN PaxItem(e, StrPath) ELSE before
             ELSE IF IsModifier(e) THEN before
             ELSE None

\* The size override the builder holds when it reaches es[k]: the last one
\* set by a PAX size since the last file-like record.
RECURSIVE PendingSize(_, _)
PendingSize(es, k) ==
    IF k = 1 THEN None
    ELSE LET e == es[k - 1]
             before == PendingSize(es, k - 1)
         IN  IF e.header.typeflag = "Pax" /\ PaxItem(e, StrSize).some
             THEN ParseU64(PaxItem(e, StrSize).v)
             ELSE IF IsFileLike(e) THEN None
             ELSE before

\* The effective name of the record es[k].
EffectiveName(es, k) == get_name(PendingLongName(es, k), es[k])

IsPrefix(a, b) == Len(a) <= Len(b) /\ Take(b, Len(a)) = a

\* Another concrete record is stored at the path of es[k], above it or
\* below it.
Conflicts(es, k) ==
    \E j \in (1..Len(es)) \ {k} :
        /\ IsConcrete(es[j])
        /\ PathIter(EffectiveName(es, j)) # <<>>
        /\ \/ IsPrefix(PathIter(EffectiveName(es, j)), PathIter(EffectiveName(es, k)))
           \/ IsPrefix(PathIter(EffectiveName(es, k)), PathIter(EffectiveName(es, j)))

\* The node the tree holds at the component path p, links not followed.
RECURSIVE NodeAt(_, _)
NodeAt(dir, p) ==
    IF p = <<>> THEN Directory(dir)
    ELSE IF Head(p) \notin DOMAIN dir THEN NoEntry
    ELSE IF Len(p) = 1 THEN dir[Head(p)]
    ELSE IF dir[Head(p)].kind = "Directory" THEN NodeAt(dir[Head(p)].dir, Tail(p))
    ELSE NoEntry

\* The target override pending when the builder reaches es[k]: the last one
\* set by a GNU long-link or a PAX linkpath since the last link record.
RECURSIVE PendingLongLink(_, _)
PendingLongLink(es, k) ==
    IF k = 1 THEN None
    ELSE LET e == es[k - 1]
             before == PendingLongLink(es, k - 1)
         IN  IF e.header.typeflag = "GnuLongLink"
             THEN IF parse_long_name(e.contents).ok
                  THEN Some(parse_long_name(e.contents).val) ELSE before
             ELSE IF e.header.typeflag = "Pax"
             THEN IF PaxItem(e, StrLinkpath).some THEN PaxItem(e, StrLinkpath)
                  ELSE before
             ELSE IF IsLinkRecord(e) THEN None
             ELSE before

\* The target of the link record es[k].
EffectiveTarget(es, k) ==
    IF PendingLongLink(es, k).some THEN PendingLongLink(es, k).v
    ELSE es[k].header.linkname

\* The pieces of a path string that are not empty.
Pieces(str) == SelectSeq(SplitSlash(str), LAMBDA c : c # <<>>)

RECURSIVE Join(_)
Join(cs) ==
    IF cs = <<>> THEN <<>>
    ELSE IF Len(cs) = 1 THEN cs[1]
    ELSE cs[1] \o <<SLASH>> \o Join(Tail(cs))

RECURSIVE Walk(_, _)
Walk(base, cs) ==
    IF cs = <<>> THEN base
    ELSE Walk(IF Head(cs) = DotDot
              THEN (IF base = <<>> THEN base ELSE Take(base, Len(base) - 1))
              ELSE Append(base, Head(cs)),
              Tail(cs))

\* resolve(L, T) as a path string: T without its leading slash when T is
\* absolute, otherwise the parent path of L with every ".." of T popping one
\* element and every other component of T appended.
Resolve(l, t) ==
    IF t # <<>> /\ t[1] = SLASH THEN Tail(t)
    ELSE Join(Walk(IF Pieces(l) = <<>> THEN <<>> ELSE Take(Pieces(l), Len(Pieces(l)) - 1),
                   Pieces(t)))

\* What open_file(q) gives on the built tree: its result, or how the lookup
\* ended when it did not return.
OpenFileOf(q) ==
    LET r == find_entry(root, debug_assertions, strip_path(q), LinkCap + 1)
    IN  IF r.status = "returned" THEN open_file_of(r.ref) ELSE [tag |-> r.status]

\* What read_dir(q) gives on the built tree, but for the order of the names.
ReadDirOk(q) ==
    \/ q = <<>>
    \/ LET r == find_entry(root, debug_assertions, strip_path(q), LinkCap + 1)
       IN  r.status = "returned" /\ r.ref.kind = "Directory"

\* The path at which build leaves something for the concrete record es[k]:
\* the path of a directory or of a leaf, or the parent that insert_dir made
\* before the leaf was skipped for want of a file name.
StoredPath(es, k) ==
    LET p == PathIter(EffectiveName(es, k))
    IN  IF IsDirRecord(es[k]) \/ FileName(p).some THEN p
        ELSE IF Parent(p).some THEN Parent(p).v ELSE <<>>

\* The names of the immediate children of the directory d, from the records.
ChildrenOf(es, d) ==
    {StoredPath(es, k)[Len(d) + 1] :
        k \in {j \in 1..Len(es) :
                  /\ IsConcrete(es[j])
                  /\ IsPrefix(d, StoredPath(es, j))
                  /\ Len(StoredPath(es, j)) > Len(d)}}

Range(f) == {f[x] : x \in DOMAIN f}

\* The tree that holds the node at the path p and nothing else.
RECURSIVE Single(_, _)
Single(p, node) ==
    IF Len(p) = 1 THEN [x \in {p[1]} |-> node]
    ELSE [x \in {p[1]} |-> Directory(Single(Tail(p), node))]

\* The kind of node build makes of a concrete record.
KindOf(e) ==
    IF IsDirRecord(e) THEN "Directory" ELSE IF IsLinkRecord(e) THEN "Link" ELSE "File"

\* The record es[k] is the first concrete one.
FirstConcrete(es, k) == \A j \in 1..(k - 1) : IsModifier(es[j])

\* build has just processed the record k.
JustBuilt(k) == pc = "build" /\ idx = k + 1

\* Every chunk of the buffer is a well-formed record: a header block, the
\* sparse extension blocks it announces, its content and the padding.
WellFormed(f) == \A x \in 1..Len(f) : f[x] \in GoodChunks

---------------------------------------------------------------------------
(* Properties.                                                             *)

\* C1: every lookup terminates: find_entry, and so exists, metadata,
\* read_dir and open_file, returns after at most LinkCap chained link
\* resolutions, on every built tree and every path.  Stated on the loop: a
\* lookup never starts a resolution past the cap.
C1_LookupWithinCap == pc = "lookup" => hops <= LinkCap

\* C2: for every file-like record r whose effective name N is not the
\* effective name, a path prefix or a path extension of another record,
\* open_file(N) on the built filesystem succeeds and yields the bytes of r's
\* content slice.  The claim is read with the rules of build: a record whose
\* name has no file name is skipped, and a pending PAX size cuts the slice.
C2_OpenFileYieldsContentSlice ==
    \A k \in 1..Len(entries) :
        (/\ IsFileLike(entries[k])
         /\ ~Conflicts(entries, k)
         /\ FileName(PathIter(EffectiveName(entries, k))).some
         /\ op = "open_file"
         /\ qpath = EffectiveName(entries, k))
        => /\ pc = "returned"
           /\ result.out =
                  Ok(IF PendingSize(entries, k).some
                     THEN Take(entries[k].contents, PendingSize(entries, k).v)
                     ELSE entries[k].contents)

\* C3: for a file-like record immediately preceded by a PAX record that
\* carries size=S, build completes the record and stores a File node of
\* length exactly S, whatever the header's size field says.
C3_PaxSizeIsStoredLength ==
    \A k \in 2..Len(entries) :
        (/\ IsFileLike(entries[k])
         /\ entries[k - 1].header.typeflag = "Pax"
         /\ PaxItem(entries[k - 1], StrSize).some
         /\ ParseU64(PaxItem(entries[k - 1], StrSize).v).some
         /\ FileName(PathIter(EffectiveName(entries, k))).some)
        => /\ ~(pc = "panic" /\ idx = k)
           /\ (pc = "build" /\ idx = k + 1) =>
                  LET node == NodeAt(root, PathIter(EffectiveName(entries, k)))
                  IN  /\ node.kind = "File"
                      /\ Len(node.buf) = ParseU64(PaxItem(entries[k - 1], StrSize).v).v

\* C4: for every link record with effective name L and target T whose
\* resolution chain is finite, open_file(L) returns the same result (the
\* same bytes or the same error) as open_file(resolve(L, T)).  The claim is
\* read with the rule of build that the last record stored at a path holds
\* it: the link record is one whose name is not the name, a path prefix or a
\* path extension of another record.
C4_LinkRecordOpensAsTarget ==
    \A k \in 1..Len(entries) :
        (/\ IsLinkRecord(entries[k])
         /\ ~Conflicts(entries, k)
         /\ pc = "returned"
         /\ op = "open_file"
         /\ qpath = EffectiveName(entries, k))
        => result.out =
               OpenFileOf(Resolve(EffectiveName(entries, k), EffectiveTarget(entries, k)))

\* C5: for every directory D of the built tree, declared or inferred,
\* read_dir(D) succeeds and yields each immediate child name exactly once
\* and nothing else, read_dir of the empty path yields the children of the
\* root, and the number of names is the number of distinct children.
C5_ReadDirYieldsChildren ==
    /\ (op = "read_dir" /\ NodeAt(root, strip_path(qpath)).kind = "Directory")
       => pc = "returned" /\ hops = 0 /\ result.out.tag = "Ok"
    /\ (pc = "returned" /\ op = "read_dir" /\ hops = 0 /\ result.out.tag = "Ok")
       => LET names == result.out.val
              children == ChildrenOf(entries, strip_path(qpath))
          IN  /\ \A x, y \in 1..Len(names) : names[x] = names[y] => x = y
              /\ Range(names) = children
              /\ Len(names) = Cardinality(children)

\* C5 witness: read_dir has returned the two children of a directory that no
\* directory record declared.
C5_Witness ==
    /\ pc = "returned"
    /\ op = "read_dir"
    /\ qpath = NameD
    /\ hops = 0
    /\ result.out.tag = "Ok"
    /\ Len(result.out.val) = 2
    /\ \A k \in 1..Len(entries) : ~IsDirRecord(entries[k])

\* The record k is a concrete record that build stores, right behind a GNU
\* long-name record.
AfterLongName(es, k) ==
    /\ es[k - 1].header.typeflag = "GnuLongName"
    /\ parse_long_name(es[k - 1].contents).ok
    /\ IsConcrete(es[k])
    /\ LET p == PathIter(parse_long_name(es[k - 1].contents).val)
       IN  p # <<>> /\ (IsDirRecord(es[k]) \/ FileName(p).some)

\* C6: a concrete record immediately preceded by a GNU long-name record with
\* payload N is stored at the path N, and neither its header name nor its
\* ustar prefix contributes to the stored path: a first concrete record
\* leaves a tree that holds the path N and nothing else.
C6_LongNameIsStoredPath ==
    \A k \in 2..Len(entries) :
        (JustBuilt(k) /\ AfterLongName(entries, k))
        => LET p == PathIter(parse_long_name(entries[k - 1].contents).val)
           IN  /\ NodeAt(root, p).kind = KindOf(entries[k])
               /\ FirstConcrete(entries, k) => root = Single(p, NodeAt(root, p))

\* C6 witness: build has stored a file record with a ustar prefix and a
\* header name under the long name that preceded it.
C6_Witness ==
    /\ JustBuilt(2)
    /\ AfterLongName(entries, 2)
    /\ entries[2].header.ustar.kind = "UStar"
    /\ entries[2].header.ustar.extra.kind = "Posix"
    /\ entries[2].header.ustar.extra.prefix # <<>>
    /\ NodeAt(root, PathIter(NameDB)).kind = "File"

\* The path string that C7 gives a record without a long-name override.
PrefixedName(e) ==
    IF /\ e.header.ustar.kind = "UStar"
       /\ e.header.ustar.extra.kind = "Posix"
       /\ e.header.ustar.extra.prefix # <<>>
    THEN e.header.ustar.extra.prefix \o <<SLASH>> \o e.header.name
    ELSE e.header.name

\* The record k is a concrete record that build stores, with no long-name
\* override pending.
Unnamed(es, k) ==
    /\ IsConcrete(es[k])
    /\ PendingLongName(es, k) = None
    /\ LET p == PathIter(PrefixedName(es[k]))
       IN  p # <<>> /\ (IsDirRecord(es[k]) \/ FileName(p).some)

\* C7: with no long-name override pending, a record with a ustar-POSIX
\* header whose prefix P is not empty is stored at P + "/" + N, N its name,
\* and a record with an empty prefix or a GNU or V7 header at N alone: a
\* first concrete record leaves a tree that holds that path and nothing
\* else.
C7_PrefixIsJoinedForPosix ==
    \A k \in 1..Len(entries) :
        (JustBuilt(k) /\ Unnamed(entries, k))
        => LET p == PathIter(PrefixedName(entries[k]))
           IN  /\ NodeAt(root, p).kind = KindOf(entries[k])
               /\ FirstConcrete(entries, k) => root = Single(p, NodeAt(root, p))

\* C7 witness: build has stored a POSIX record with prefix "d" and name "a"
\* at d/a.
C7_Witness ==
    /\ JustBuilt(1)
    /\ Unnamed(entries, 1)
    /\ entries[1].header.ustar.kind = "UStar"
    /\ entries[1].header.ustar.extra.kind = "Posix"
    /\ entries[1].header.ustar.extra.prefix = NameD
    /\ entries[1].header.name = NameA
    /\ root = Single(PathIter(NameDA), File(ContentW))

\* C8: on every built tree and every path on which the lookup returns,
\* exists(p) is true exactly when open_file(p) succeeds or read_dir(p)
\* succeeds.  The tree is that of the archive: the three calls find in the
\* buffer the bytes it was built from.
C8_ExistsIffOpenOrReadDir ==
    (intact /\ pc = "returned" /\ op = "exists")
    => result.out = Ok(OpenFileOf(qpath).tag = "Ok" \/ ReadDirOk(qpath))

\* C8 witness: exists has returned true for a path that names a link to a
\* directory, which read_dir lists and open_file does not find.
C8_Witness ==
    /\ intact
    /\ pc = "returned"
    /\ op = "exists"
    /\ hops > 0
    /\ result.out = Ok(TRUE)
    /\ OpenFileOf(qpath).tag = "Err"
    /\ ReadDirOk(qpath)

\* C9: create_dir, create_file, append_file, remove_file and remove_dir
\* return NotSupported for every path and every tree, and no call on the
\* built filesystem, query or mutation, changes the tree.
C9_MutationsNotSupported ==
    [][/\ (pc = "ready" /\ op' \in Mutations) => result'.out = Err("NotSupported")
       /\ Constructed => root' = root]_vars

\* C9 witness: remove_file has returned for the path of a file of the tree.
C9_Witness ==
    /\ pc = "returned"
    /\ op = "remove_file"
    /\ NodeAt(root, strip_path(qpath)).kind = "File"

\* C10: TarFS::new succeeds exactly when the whole buffer is a sequence of
\* well-formed records; otherwise it returns an error and no filesystem, and
\* no query returns a parser error.
C10_NewSucceedsIffWellFormed ==
    /\ pc = "failed" => ~WellFormed(file)
    /\ Constructed => WellFormed(file)
    /\ WellFormed(file) => ~(pc = "panic" /\ op = "none")
    /\ result.out # Err("Other")

\* C11: after build has processed a concrete record (a directory, a link or
\* a file-like record) the three pending slots longname, longlink and
\* realsize are all empty, so that a modifier record reaches no further
\* than the first concrete record behind it.
C11_SlotsEmptyAfterConcrete ==
    \A k \in 1..Len(entries) :
        (JustBuilt(k) /\ IsConcrete(entries[k]))
        => longname = None /\ longlink = None /\ realsize = None

\* A component that build has to descend through to store the record es[k]
\* in the tree dir is a File or a Link there: a component of the path of a
\* directory record, or of the parent path of a leaf.
Occupied(dir, name, e) ==
    LET p == PathIter(name)
        through == IF IsDirRecord(e) THEN p
                   ELSE IF Parent(p).some THEN Parent(p).v ELSE <<>>
    IN  \E n \in 1..Len(through) : NodeAt(dir, Take(through, n)).kind \in {"File", "Link"}

\* C12: build completes for every record sequence: when a record has to
\* descend through a path component that a File or a Link occupies, build
\* replaces the node or skips the record, and never aborts.
C12_BuildNeverAbortsOnConflict ==
    (/\ pc \in {"build", "panic"}
     /\ op = "none"
     /\ idx <= Len(entries)
     /\ IsConcrete(entries[idx])
     /\ Occupied(root, get_name(longname, entries[idx]), entries[idx]))
    => pc # "panic"

Slots == {"longname", "longlink", "realsize"}

\* The value that the modifier record e brings for a slot, if it brings one.
Brings(e, slot) ==
    CASE slot = "longname" ->
             IF e.header.typeflag = "GnuLongName" /\ parse_long_name(e.contents).ok
             THEN Some(parse_long_name(e.contents).val)
             ELSE IF e.header.typeflag = "Pax" THEN PaxItem(e, StrPath) ELSE None
      [] slot = "longlink" ->
             IF e.header.typeflag = "GnuLongLink" /\ parse_long_name(e.contents).ok
             THEN Some(parse_long_name(e.contents).val)
             ELSE IF e.header.typeflag = "Pax" THEN PaxItem(e, StrLinkpath) ELSE None
      [] slot = "realsize" ->
             IF e.header.typeflag = "Pax" /\ PaxItem(e, StrSize).some
             THEN ParseU64(PaxItem(e, StrSize).v) ELSE None

\* The slot in front of the record es[k] when a modifier that finds its slot
\* set is discarded and every concrete record clears the slots.
RECURSIVE Kept(_, _, _)
Kept(es, k, slot) ==
    IF k = 1 THEN None
    ELSE LET e == es[k - 1]
             before == Kept(es, k - 1, slot)
         IN  IF IsConcrete(e) THEN None
             ELSE IF before.some THEN before
             ELSE Brings(e, slot)

\* The slot of the builder.
SlotValue(slot) ==
    CASE slot = "longname" -> longname
      [] slot = "longlink" -> longlink
      [] slot = "realsize" -> realsize

\* C13: when a modifier (GNU long-name, GNU long-link, PAX path, linkpath or
\* size) arrives while its slot is still set from an earlier modifier, a
\* release build goes on, discards the modifier that arrived and leaves the
\* earlier value in the slot.
C13_EarlierModifierIsKept ==
    \A k \in 1..Len(entries) : \A slot \in Slots :
        (/\ ~debug_assertions
         /\ pc \in {"build", "panic"}
         /\ op = "none"
         /\ IsModifier(entries[k])
         /\ Brings(entries[k], slot).some
         /\ Kept(entries, k, slot).some)
        => /\ ~(pc = "panic" /\ idx = k)
           /\ idx = k + 1 => SlotValue(slot) = Kept(entries, k, slot)

\* The number of components of p at which the walk of p in the tree dir
\* reaches a Link node.
LinkDepth(dir, p) == CHOOSE n \in 1..Len(p) : NodeAt(dir, Take(p, n)).kind = "Link"

\* The path that a step of a lookup walks: the stripped query path in the
\* first iteration of find_entry, its local path in a later one.
Walked == IF pc = "ready" THEN strip_path(qpath') ELSE path

\* C14: when the walk of a path p reaches a Link node stored at q, q equal to
\* p or a proper prefix of it, with a relative target T, the path of the
\* restarted walk is computed from the parent directory of q, with ".."
\* popping and other components appending; the components of p behind q are
\* never the base of the resolution (they may at most follow the resolved
\* path).
C14_ResolvesFromLinkPosition ==
    [][(/\ intact
        /\ pc \in {"ready", "lookup"}
        /\ pc' = "lookup"
        /\ hops' = hops + 1)
       => LET p == Walked
              n == LinkDepth(root, p)
              target == NodeAt(root, Take(p, n)).target
              resolved == ApplyTarget(Take(p, n - 1), PathIter(target))
          IN  (target = <<>> \/ target[1] # SLASH)
              => path' \in {resolved, resolved \o Drop(p, n)}]_vars

\* build is about to process a Directory or GnuDirectory record whose
\* effective path names a Directory node of the tree, out of a buffer that
\* holds the bytes of the archive.
DirectoryAgain ==
    /\ intact
    /\ pc = "build"
    /\ idx <= Len(entries)
    /\ IsDirRecord(entries[idx])
    /\ PathIter(get_name(longname, entries[idx])) # <<>>
    /\ NodeAt(root, PathIter(get_name(longname, entries[idx]))).kind = "Directory"

\* C15: processing a Directory or GnuDirectory record whose effective path
\* already names a Directory node, inferred or declared, leaves the whole
\* tree unchanged: every child under that directory is still there with the
\* same content.  Stated on the step of build from such a record, the buffer
\* being the immutable region that the archive was parsed from.
C15_DirectoryRecordKeepsTree ==
    [][(DirectoryAgain /\ intact')
       => (pc' = "build" /\ idx' = idx + 1 /\ root' = root)]_vars

\* C15 witness: build has processed the directory record "d/" behind the
\* file record d/a, from which the directory d was inferred, and the file is
\* still in the tree.
C15_Witness ==
    /\ JustBuilt(2)
    /\ IsFileLike(entries[1])
    /\ EffectiveName(entries, 1) = NameDA
    /\ IsDirRecord(entries[2])
    /\ EffectiveName(entries, 2) = NameDSlash
    /\ root = Single(PathIter(NameDA), File(ContentW))

\* C16: whenever find_entry returns, what it returns is absent, a File or a
\* Directory and never a Link, so that metadata never runs its unreachable
\* arm: it returns file_type File with the length that open_file would
\* yield, file_type Directory with length 0, or FileNotFound.  The
\* unreachable arm is not run whatever the buffer holds; metadata and
\* open_file agree on a buffer that holds the bytes of the archive.
C16_FindEntryNeverYieldsLink ==
    /\ pc = "ready" =>
           \A q \in QueryPaths :
               LET r == find_entry(root, debug_assertions, strip_path(q), LinkCap + 1)
               IN  r.status = "returned" => r.ref.kind \in {"None", "File", "Directory"}
    /\ (pc = "returned" /\ op = "metadata") => result.out # Unreachable
    /\ (intact /\ pc = "returned" /\ op = "metadata")
       => result.out =
              IF OpenFileOf(qpath).tag = "Ok"
              THEN Ok([file_type |-> "File", len |-> Len(OpenFileOf(qpath).val)])
              ELSE IF ReadDirOk(qpath)
              THEN Ok([file_type |-> "Directory", len |-> 0])
              ELSE Err("FileNotFound")

\* C16 witness: metadata has followed a link and returned the length of the
\* three-byte file that the link resolves to.
C16_Witness ==
    /\ intact
    /\ pc = "returned"
    /\ op = "metadata"
    /\ hops > 0
    /\ NodeAt(root, strip_path(qpath)).kind = "Link"
    /\ result.out = Ok([file_type |-> "File", len |-> 3])

=============================================================================
